---- MODULE Spec2Model ----
(***************************************************************************)
(* Model of the agentctl coordination namespace (pkg/coordination): the    *)
(* claims table (claims.json), the event log (messages.jsonl) and the      *)
(* agent-state table (state.json) kept in one directory per repository,    *)
(* and the handlers that read and write them; and of the retry controller *)
(* (container.RunUntilDone) that reports into that namespace.              *)
(*                                                                         *)
(* The specifications share the state:                                     *)
(*   Spec      calls are issued one after another; each action is one      *)
(*             whole handler (what the package's tests exercise).          *)
(*   ConcSpec  every agent is its own process; a handler is a sequence of  *)
(*             file-system calls (ReadFile, WriteFile, Stat, append) and   *)
(*             the processes interleave between those calls.               *)
(*   NsSpec    whole handlers of every kind: claims, notifications, state  *)
(*             updates, Init and the read paths.                           *)
(*   RelevanceSpec, SinceSpec  the event log: events of every type read    *)
(*             per agent, and events over time read since an instant.      *)
(*   TornSpec  SinceSpec with publishers that die inside their write.      *)
(*   PubSpec   ConcSpec's Publish steps run by concurrent publishers.      *)
(*   StateSpec the agent-state table used by one caller at a time.         *)
(*   UpdSpec   UpdateAgentState run by concurrent processes, with          *)
(*             os.WriteFile as an open with O_TRUNC and a write.           *)
(*   CtlSpec, CtlFairSpec  container.RunUntilDone, the retry loop around   *)
(*             the executor and the status probe; CtlFairSpec adds weak    *)
(*             fairness of the controller's steps.                         *)
(*   RebaseSpec  the controller while rebase_needed signals are published. *)
(*   DefaultSpec  the controller started with maxAttempts = 0.             *)
(*   FaultSpec ClaimFile and ReleaseFile when a file-system call of theirs *)
(*             returns an error.                                           *)
(*   FrameSpec the controller in a namespace that holds claims, events and *)
(*             state records of both agents before the run starts.         *)
(***************************************************************************)
EXTENDS Integers, Sequences, FiniteSets, TLC

\* ---------------------------------------------------------------- bounds
MaxTime == 1       \* the wall clock runs over 0..MaxTime ticks
MaxLog == 3        \* Spec: no call is made once the log holds MaxLog events
MaxCalls == 2      \* ConcSpec: every process makes at most MaxCalls calls

\* ---------------------------------------------------------------- inputs
Agents == {"a1", "a2"}
Paths == {"f1", "f2", "f3"}
ConcPaths == {"f1", "f2"}     \* the paths the processes of ConcSpec contend for

\* The clock ticks twice per second; time.RFC3339 prints whole seconds.
TicksPerSecond == 2

\* bus.go MessageType constants
MsgClaim == "claim"
MsgRelease == "release"
MsgCommitted == "committed"
MsgPushed == "pushed"
MsgPRCreated == "pr_created"
MsgMerged == "merged"
MsgRebaseNeeded == "rebase_needed"

VARIABLES
  fs,        \* the coordination directory: dir, claims, messages, state
  now,       \* the wall clock read by time.Now()
  last,      \* the last completed call, its result and the state before it
  sent,      \* the messages handed to Publish calls that returned nil, in order
  pc,        \* ConcSpec: per process, the next file-system call of its handler
  call,      \* ConcSpec: per process, the handler it runs and its arguments
  calls,     \* ConcSpec: per process, the number of calls it has made
  mem,       \* ConcSpec: per process, the claims map it holds in memory
  out,       \* ConcSpec: per process, the message Publish is about to append
  ret,       \* ConcSpec: per process, the error its handler returned
  granted,   \* ConcSpec: per path, the agents told "claimed" and not released since
  wonDuring  \* ConcSpec: per process in ReleaseAllForAgent, claims others won meanwhile

vars == <<fs, now, last, sent, sent, pc, call, calls, mem, out, ret, granted, wonDuring>>

\* ------------------------------------------------------------ data model
\* Claims (claims.go:19): a map from file path to Claim
EmptyClaims == [p \in {} |-> 0]

Claim(agentName, filePath, t) ==
  [agent |-> agentName, file |-> filePath, claimed_at |-> t]

\* Message (bus.go:26)
Message(type, agentName, t, data) ==
  [type |-> type, agent |-> agentName, timestamp |-> t, data |-> data]

FileData(filePath) == [k \in {"file"} |-> filePath]

\* A Data map without entries (nil and the empty map behave alike).
NoData == [k \in {} |-> ""]

\* json.Marshal of a Message: one JSON object; `omitempty` leaves the data
\* key out when the map has no entries.  The timestamp is written with
\* nanoseconds (RFC3339Nano), so the instant survives.
MarshalMessage(msg) ==
  IF msg.data = NoData
    THEN [type |-> msg.type, agent |-> msg.agent, timestamp |-> msg.timestamp]
    ELSE [type |-> msg.type, agent |-> msg.agent, timestamp |-> msg.timestamp,
          data |-> msg.data]

\* json.Unmarshal of such an object into a Message: a missing data key
\* leaves the map nil.
UnmarshalMessage(obj) ==
  Message(obj.type, obj.agent, obj.timestamp,
          IF "data" \in DOMAIN obj THEN obj.data ELSE NoData)

\* A line of messages.jsonl: whether its bytes parse as a JSON object (json),
\* the object, and whether the line ends in a newline (nl).  Only the last
\* line of the file can lack the newline: a write that was cut short.
JsonLine(obj) == [json |-> TRUE, nl |-> TRUE, obj |-> obj]
BrokenLine(nl) == [json |-> FALSE, nl |-> nl, obj |-> NoData]

\* time.Time.Format(time.RFC3339): the instant cut down to whole seconds
FormatRFC3339(t) == t \div TicksPerSecond

\* the error values the handlers return
Nil == [kind |-> "nil", heldBy |-> "", since |-> -1, by |-> ""]
Conflict(heldBy, since) ==
  [kind |-> "Conflict", heldBy |-> heldBy, since |-> since, by |-> ""]
Forbidden(heldBy, by) ==
  [kind |-> "Forbidden", heldBy |-> heldBy, since |-> -1, by |-> by]
StorageFailure == [kind |-> "StorageFailure", heldBy |-> "", since |-> -1, by |-> ""]

\* A file of the directory: whether it exists, and what it holds.
NoFile(empty) == [exists |-> FALSE, content |-> empty]
File(content) == [exists |-> TRUE, content |-> content]

\* The text of State.LastUpdated: never written, or time.RFC3339 of an instant.
NoText == <<>>
Text(x) == <<x>>

EmptyState == [agents |-> EmptyClaims, last_updated |-> NoText]

\* The zero time.Time, long before the clock's first reading.
ZeroTime == -1

\* The zero AgentHistory
NoHistory ==
  [Name |-> "", Repo |-> "", Created |-> ZeroTime, CompletedAt |-> ZeroTime,
   Result |-> "", Attempts |-> 0]

\* The coordination directory before coordination.Init ever ran for this
\* repository, and ~/.agentctl/history without a record of any agent.
FreshFs ==
  [dir |-> FALSE,
   claims |-> NoFile(EmptyClaims),
   messages |-> NoFile(<<>>),
   state |-> NoFile(EmptyState),
   history |-> [a \in Agents |-> NoFile(NoHistory)]]

\* Every caller of ClaimFile, ReleaseAllForAgent and Publish in the repository
\* (main.go claim/notify, RunUntilDone, the tests' setupTestRepo) has run
\* coordination.Init to completion first, and nothing deletes the files.
Initialized(f) ==
  f.dir /\ f.claims.exists /\ f.messages.exists /\ f.state.exists

\* --------------------------------------------------------------- storage
\* loadClaims: a missing file reads as the empty map
loadClaims(f) == IF f.claims.exists THEN f.claims.content ELSE EmptyClaims

\* saveClaims: os.WriteFile of the whole map; fails without the directory
saveClaims(f, claims) ==
  IF f.dir
    THEN [fs |-> [f EXCEPT !.claims = File(claims)], err |-> Nil]
    ELSE [fs |-> f, err |-> StorageFailure]

\* The bytes Publish appends: the message with the store's timestamp.
Stamp_Caller(msg, t) == msg

Stamp(msg, t) == [msg EXCEPT !.timestamp = t]

\* The file after bytes are written at its end.  Bytes that follow a line
\* without newline continue that line, and the two together do not parse.
AppendBytes_Front(lines, line) == <<line>> \o lines

AppendBytes_Truncate(lines, line) == <<line>>

AppendBytes(lines, line) ==
  IF lines # <<>> /\ ~lines[Len(lines)].nl
    THEN [lines EXCEPT ![Len(lines)] = BrokenLine(line.nl)]
    ELSE Append(lines, line)

\* O_APPEND|O_CREATE write of one line to messages.jsonl
AppendLine(f, line) ==
  IF f.dir
    THEN [fs |-> [f EXCEPT !.messages = File(AppendBytes(f.messages.content, line))],
          err |-> Nil]
    ELSE [fs |-> f, err |-> StorageFailure]

\* Publish (bus.go:34): stamp with time.Now(), marshal, append
Publish(f, t, msg) == AppendLine(f, JsonLine(MarshalMessage(Stamp(msg, t))))

\* The scanner loop of readMessagesFromDir (bus.go:138-148): a line that
\* does not unmarshal is skipped.
RECURSIVE ScanLines(_, _)
ScanLines(lines, messages) ==
  IF lines = <<>> THEN messages
  ELSE IF ~Head(lines).json THEN ScanLines(Tail(lines), messages)
  ELSE ScanLines(Tail(lines), Append(messages, UnmarshalMessage(Head(lines).obj)))

\* readMessagesFromDir (bus.go:125): a missing file reads as no messages
readMessagesFromDir_StopAtBroken(f) ==
  LET c == f.messages.content
      bad == {i \in 1..Len(c) : ~c[i].json}
      n == IF bad = {} THEN Len(c)
           ELSE (CHOOSE i \in bad : \A j \in bad : i <= j) - 1
  IN IF f.messages.exists THEN ScanLines(SubSeq(c, 1, n), <<>>) ELSE <<>>

readMessagesFromDir(f) ==
  IF f.messages.exists THEN ScanLines(f.messages.content, <<>>) ELSE <<>>

Put(claims, filePath, c) ==
  [q \in (DOMAIN claims) \cup {filePath} |-> IF q = filePath THEN c ELSE claims[q]]

Delete(claims, filePath) ==
  [q \in (DOMAIN claims) \ {filePath} |-> claims[q]]

\* ----------------------------------------------------------- ClaimRegistry
\* Mutant: a repeated claim by the holder writes a fresh Claim.
ClaimDecide_Restamp(claims, t, agentName, filePath) ==
  IF filePath \in DOMAIN claims /\ claims[filePath].agent # agentName
    THEN [write |-> FALSE, claims |-> claims,
          err |-> Conflict(claims[filePath].agent,
                           FormatRFC3339(claims[filePath].claimed_at))]
    ELSE [write |-> TRUE,
          claims |-> Put(claims, filePath, Claim(agentName, filePath, t)),
          err |-> Nil]

\* Mutant: the holder check is missing, the caller takes the path over.
ClaimDecide_Overwrite(claims, t, agentName, filePath) ==
  IF filePath \in DOMAIN claims /\ claims[filePath].agent = agentName
    THEN [write |-> FALSE, claims |-> claims, err |-> Nil]
    ELSE [write |-> TRUE,
          claims |-> Put(claims, filePath, Claim(agentName, filePath, t)),
          err |-> Nil]

\* What ClaimFile decides from the map it loaded (claims.go:34-47).
ClaimDecide(claims, t, agentName, filePath) ==
  IF filePath \in DOMAIN claims
    THEN IF claims[filePath].agent # agentName
           THEN [write |-> FALSE, claims |-> claims,
                 err |-> Conflict(claims[filePath].agent,
                                  FormatRFC3339(claims[filePath].claimed_at))]
           ELSE [write |-> FALSE, claims |-> claims, err |-> Nil]
    ELSE [write |-> TRUE,
          claims |-> Put(claims, filePath, Claim(agentName, filePath, t)),
          err |-> Nil]

\* Mutant: the claim is saved but no claim message is published.
ClaimFile_NoPublish(f, t, agentName, filePath) ==
  LET d == ClaimDecide(loadClaims(f), t, agentName, filePath)
  IN IF ~d.write THEN [fs |-> f, err |-> d.err] ELSE saveClaims(f, d.claims)

\* ClaimFile (claims.go:23), the whole handler
ClaimFile(f, t, agentName, filePath) ==
  LET d == ClaimDecide(loadClaims(f), t, agentName, filePath)
      s == saveClaims(f, d.claims)
  IN IF ~d.write THEN [fs |-> f, err |-> d.err]
     ELSE IF s.err # Nil THEN s
     ELSE Publish(s.fs, t, Message(MsgClaim, agentName, 0, FileData(filePath)))

\* Mutant: the holder check is missing, anyone releases the path.
ReleaseDecide_NoHolderCheck(claims, agentName, filePath) ==
  IF filePath \notin DOMAIN claims
    THEN [write |-> FALSE, claims |-> claims, err |-> Nil]
    ELSE [write |-> TRUE, claims |-> Delete(claims, filePath), err |-> Nil]

\* Mutant: the early return for an unclaimed path is missing.
ReleaseDecide_NoEarlyReturn(claims, agentName, filePath) ==
  IF filePath \in DOMAIN claims /\ claims[filePath].agent # agentName
    THEN [write |-> FALSE, claims |-> claims,
          err |-> Forbidden(claims[filePath].agent, agentName)]
    ELSE [write |-> TRUE, claims |-> Delete(claims, filePath), err |-> Nil]

\* What ReleaseFile decides from the map it loaded (claims.go:74-85).
ReleaseDecide(claims, agentName, filePath) ==
  IF filePath \notin DOMAIN claims
    THEN [write |-> FALSE, claims |-> claims, err |-> Nil]
    ELSE IF claims[filePath].agent # agentName
      THEN [write |-> FALSE, claims |-> claims,
            err |-> Forbidden(claims[filePath].agent, agentName)]
      ELSE [write |-> TRUE, claims |-> Delete(claims, filePath), err |-> Nil]

\* Mutant: the claim is removed but no release message is published.
ReleaseFile_NoPublish(f, t, agentName, filePath) ==
  LET d == ReleaseDecide(loadClaims(f), agentName, filePath)
  IN IF ~d.write THEN [fs |-> f, err |-> d.err] ELSE saveClaims(f, d.claims)

\* ReleaseFile (claims.go:63), the whole handler
ReleaseFile(f, t, agentName, filePath) ==
  LET d == ReleaseDecide(loadClaims(f), agentName, filePath)
      s == saveClaims(f, d.claims)
  IN IF ~d.write THEN [fs |-> f, err |-> d.err]
     ELSE IF s.err # Nil THEN s
     ELSE Publish(s.fs, t, Message(MsgRelease, agentName, 0, FileData(filePath)))

\* Mutant: the loop deletes without comparing the agent.
DeleteAllOf_Everyone(claims, agentName) == EmptyClaims

\* The loop of ReleaseAllForAgent (claims.go:139-143)
DeleteAllOf(claims, agentName) ==
  [q \in {p \in DOMAIN claims : claims[p].agent # agentName} |-> claims[q]]

\* ReleaseAllForAgent (claims.go:128), the whole handler
ReleaseAllForAgent(f, agentName) ==
  saveClaims(f, DeleteAllOf(loadClaims(f), agentName))

\* ---------------------------------------------------------------- EventLog
\* ReadMessages (bus.go:60)
ReadMessages(f) == [fs |-> f, err |-> Nil, val |-> readMessagesFromDir(f)]

\* The loop of ReadMessagesSince (bus.go:76-81): keep what is After(since)
RECURSIVE FilterSince(_, _, _)
FilterSince(all, since, filtered) ==
  IF all = <<>> THEN filtered
  ELSE FilterSince(Tail(all), since,
                   IF Head(all).timestamp > since
                     THEN Append(filtered, Head(all)) ELSE filtered)

\* ReadMessagesSince (bus.go:70)
ReadMessagesSince_Inclusive(f, since) ==
  [fs |-> f, err |-> Nil,
   val |-> FilterSince(ReadMessages(f).val, since - 1, <<>>)]

ReadMessagesSince(f, since) ==
  [fs |-> f, err |-> Nil, val |-> FilterSince(ReadMessages(f).val, since, <<>>)]

\* isRelevantToAgent (bus.go:155)
isRelevantToAgent_Untargeted(msg, agentName) ==
  CASE msg.type = MsgRebaseNeeded -> TRUE
    [] msg.type \in {MsgPushed, MsgMerged} -> TRUE
    [] OTHER -> FALSE

isRelevantToAgent(msg, agentName) ==
  CASE msg.type = MsgRebaseNeeded ->
         "target" \notin DOMAIN msg.data \/ msg.data["target"] = agentName
    [] msg.type \in {MsgPushed, MsgMerged} -> TRUE
    [] OTHER -> FALSE

\* The loop of ReadMessagesForAgent (bus.go:93-97)
RECURSIVE FilterForAgent(_, _, _)
FilterForAgent(all, agentName, filtered) ==
  IF all = <<>> THEN filtered
  ELSE FilterForAgent(Tail(all), agentName,
                      IF Head(all).agent = agentName
                           \/ isRelevantToAgent(Head(all), agentName)
                        THEN Append(filtered, Head(all)) ELSE filtered)

\* ReadMessagesForAgent (bus.go:86)
ReadMessagesForAgent(f, agentName) ==
  [fs |-> f, err |-> Nil,
   val |-> FilterForAgent(ReadMessages(f).val, agentName, <<>>)]

\* The loop of HasRebaseNeeded (bus.go:110-121): the first rebase_needed
\* message whose target is this agent, or that has no target, answers true.
RECURSIVE AnyRebaseFor(_, _)
AnyRebaseFor(msgs, agentName) ==
  IF msgs = <<>> THEN FALSE
  ELSE LET msg == Head(msgs)
       IN IF msg.type = MsgRebaseNeeded
               /\ \/ "target" \in DOMAIN msg.data /\ msg.data["target"] = agentName
                  \/ "target" \notin DOMAIN msg.data
            THEN TRUE
            ELSE AnyRebaseFor(Tail(msgs), agentName)

\* HasRebaseNeeded (bus.go:104)
HasRebaseNeeded_Ever(f, agentName, since) ==
  [fs |-> f, err |-> Nil, val |-> AnyRebaseFor(ReadMessages(f).val, agentName)]

HasRebaseNeeded(f, agentName, since) ==
  [fs |-> f, err |-> Nil,
   val |-> AnyRebaseFor(ReadMessagesSince(f, since).val, agentName)]

\* ListClaims (claims.go:100): the map loadClaims returns
ListClaims(f) == [fs |-> f, err |-> Nil, val |-> loadClaims(f)]

\* IsFileClaimed (claims.go:110): the claiming agent and whether it is claimed
IsFileClaimed_File(f, filePath) ==
  LET claims == loadClaims(f)
  IN [fs |-> f, err |-> Nil,
      val |-> IF filePath \in DOMAIN claims
                THEN [agent |-> claims[filePath].file, claimed |-> TRUE]
                ELSE [agent |-> "", claimed |-> FALSE]]

IsFileClaimed(f, filePath) ==
  LET claims == loadClaims(f)
  IN [fs |-> f, err |-> Nil,
      val |-> IF filePath \in DOMAIN claims
                THEN [agent |-> claims[filePath].agent, claimed |-> TRUE]
                ELSE [agent |-> "", claimed |-> FALSE]]

\* -------------------------------------------------------- AgentStateTable
\* AgentState (state.go)
AgentState(agentName, branch, status, t) ==
  [name |-> agentName, branch |-> branch, status |-> status, last_update |-> t]

\* json.Marshal of an AgentState: `branch` is omitempty
MarshalAgentState(a) ==
  IF a.branch = ""
    THEN [name |-> a.name, status |-> a.status, last_update |-> a.last_update]
    ELSE [name |-> a.name, branch |-> a.branch, status |-> a.status,
          last_update |-> a.last_update]

\* json.Unmarshal into an AgentState: an absent `branch` is the empty string
UnmarshalAgentState(obj) ==
  [name |-> obj.name,
   branch |-> IF "branch" \in DOMAIN obj THEN obj.branch ELSE "",
   status |-> obj.status, last_update |-> obj.last_update]

\* The bytes of one agent's entry in json.MarshalIndent(state, "", "  "):
\* the key line, the name, branch (omitempty), status and last_update lines
\* and the closing brace; time.Time is taken at its full RFC3339Nano width.
AgentStateBytes(obj) ==
  (10 + Len(obj.name)) + (18 + Len(obj.name))
  + (IF "branch" \in DOMAIN obj THEN 20 + Len(obj.branch) ELSE 0)
  + (20 + Len(obj.status)) + (24 + 30) + 6

RECURSIVE SumBytes(_, _)
SumBytes(agents, names) ==
  IF names = {} THEN 0
  ELSE LET n == CHOOSE m \in names : TRUE
       IN AgentStateBytes(agents[n]) + SumBytes(agents, names \ {n})

\* The length of state.json as written: Init's literal line, or MarshalIndent's
\* output and the newline saveState appends.
EncodedSize(content) ==
  IF content.last_updated = NoText
    THEN 32
    ELSE 2
         + (IF DOMAIN content.agents = {}
              THEN 16
              ELSE 14 + SumBytes(content.agents, DOMAIN content.agents)
                   + (Cardinality(DOMAIN content.agents) - 1) + 5)
         + (21 + 20) + 2

\* What follows the JSON value in a file: len bytes left over from an older,
\* longer content, and ws, the number of whitespace bytes the file ends in.
\* A file as one writer leaves it ends in one newline.
NoTail == [len |-> 0, ws |-> 1]
TailOf(file) == IF "tail" \in DOMAIN file THEN file.tail ELSE NoTail

\* os.OpenFile(name, O_WRONLY|O_CREATE|O_TRUNC): the file is empty
Truncate(file) ==
  [exists |-> TRUE, content |-> EmptyState, tail |-> [len |-> 0, ws |-> 0]]

FileSize(file) ==
  IF ~file.exists \/ TailOf(file).ws = 0
    THEN 0
    ELSE EncodedSize(file.content) + TailOf(file).len

\* f.Write(data) at offset 0 of a file opened without O_APPEND: bytes of the
\* file beyond the new content stay where they are.
WriteAtStart(file, content) ==
  LET k == FileSize(file) - EncodedSize(content)
      w == TailOf(file).ws
  IN IF k <= 0
       THEN File(content)
       ELSE [exists |-> TRUE, content |-> content,
             tail |-> [len |-> k, ws |-> IF k <= w THEN k + 1 ELSE w]]

\* json.Unmarshal accepts a value followed by whitespace only
Parses(file) == TailOf(file).len < TailOf(file).ws

\* loadState's error: state.json exists and does not parse
loadStateErr(f) ==
  IF f.state.exists /\ ~Parses(f.state) THEN StorageFailure ELSE Nil

\* loadState: a missing file reads as a State without agents
loadState(f) ==
  IF f.state.exists
    THEN [agents |-> [n \in DOMAIN f.state.content.agents |->
                        UnmarshalAgentState(f.state.content.agents[n])],
          last_updated |-> f.state.content.last_updated]
    ELSE EmptyState

\* saveState: os.WriteFile of the whole State; fails without the directory
MarshalState(state) ==
  [agents |-> [n \in DOMAIN state.agents |-> MarshalAgentState(state.agents[n])],
   last_updated |-> state.last_updated]

saveState(f, state) ==
  IF f.dir
    THEN [fs |-> [f EXCEPT !.state =
                    WriteAtStart(Truncate(f.state), MarshalState(state))],
          err |-> Nil]
    ELSE [fs |-> f, err |-> StorageFailure]

\* A variant that keeps the stored branch when the new one is empty.
UpdateAgentState_Merge(f, t, agentName, status, branch) ==
  LET state == loadState(f)
      old == IF agentName \in DOMAIN state.agents
               THEN state.agents[agentName].branch ELSE ""
  IN saveState(f, [agents |-> Put(state.agents, agentName,
                                  AgentState(agentName,
                                             IF branch = "" THEN old ELSE branch,
                                             status, t)),
                   last_updated |-> Text(FormatRFC3339(t))])

\* UpdateAgentState (state.go), the whole handler
UpdateAgentState(f, t, agentName, status, branch) ==
  LET state == loadState(f)
  IN IF loadStateErr(f) # Nil
       THEN [fs |-> f, err |-> loadStateErr(f)]
       ELSE saveState(f, [agents |-> Put(state.agents, agentName,
                                         AgentState(agentName, branch, status, t)),
                          last_updated |-> Text(FormatRFC3339(t))])

\* A variant that empties the whole table.
RemoveAgentState_All(f, t, agentName) ==
  saveState(f, [agents |-> EmptyClaims, last_updated |-> Text(FormatRFC3339(t))])

\* RemoveAgentState (state.go), the whole handler
RemoveAgentState(f, t, agentName) ==
  LET state == loadState(f)
  IN IF loadStateErr(f) # Nil
       THEN [fs |-> f, err |-> loadStateErr(f)]
       ELSE saveState(f, [agents |-> Delete(state.agents, agentName),
                          last_updated |-> Text(FormatRFC3339(t))])

\* GetState (state.go): the State loadState returns
GetState(f) == [fs |-> f, err |-> loadStateErr(f), val |-> loadState(f)]

\* ------------------------------------------------------ CoordinationStore
\* One "create if os.Stat says it does not exist" block of Init.
CreateIfAbsent_Always(file, initial) == File(initial)

CreateIfAbsent(file, initial) == IF file.exists THEN file ELSE File(initial)

\* coordination.Init, the whole handler: MkdirAll, then the three files
CoordinationInit(f) ==
  [fs |-> [f EXCEPT !.dir = TRUE,
                     !.claims = CreateIfAbsent(f.claims, EmptyClaims),
                     !.messages = CreateIfAbsent(f.messages, <<>>),
                     !.state = CreateIfAbsent(f.state, EmptyState)],
   err |-> Nil]

\* ------------------------------------------------------------------ Init
Procs == Agents

NoCall == [op |-> "none", agent |-> "", path |-> ""]
NoMessage == Message("", "", 0, NoData)

Init ==
  /\ fs = FreshFs
  /\ now = 0
  /\ last = [op |-> "none", agent |-> "", path |-> "", err |-> Nil,
             pre |-> FreshFs]
  /\ sent = <<>>
  /\ pc = [self \in Procs |-> "idle"]
  /\ call = [self \in Procs |-> NoCall]
  /\ calls = [self \in Procs |-> 0]
  /\ mem = [self \in Procs |-> EmptyClaims]
  /\ out = [self \in Procs |-> NoMessage]
  /\ ret = [self \in Procs |-> Nil]
  /\ granted = [p \in Paths |-> {}]
  /\ wonDuring = [self \in Procs |-> {}]

concVars == <<pc, call, calls, mem, out, ret, granted, wonDuring>>

LogRoom(f) == Len(f.messages.content) < MaxLog

\* The wall clock advances between any two steps.
Tick ==
  /\ now < MaxTime
  /\ now' = now + 1
  /\ UNCHANGED <<fs, last, sent, concVars>>

\* ------------------------------------------- Spec: one handler per action
Completed(op, agentName, filePath, r) ==
  /\ fs' = r.fs
  /\ last' = [op |-> op, agent |-> agentName, path |-> filePath, err |-> r.err,
              pre |-> fs]
  /\ UNCHANGED <<now, sent, concVars>>

DoInit ==
  Completed("init", "", "", CoordinationInit(fs))

DoClaim(agentName, filePath) ==
  /\ Initialized(fs)
  /\ LogRoom(fs)
  /\ Completed("claim", agentName, filePath, ClaimFile(fs, now, agentName, filePath))

DoRelease(agentName, filePath) ==
  /\ LogRoom(fs)
  /\ Completed("release", agentName, filePath, ReleaseFile(fs, now, agentName, filePath))

DoReleaseAll(agentName) ==
  /\ Initialized(fs)
  /\ Completed("releaseAll", agentName, "", ReleaseAllForAgent(fs, agentName))

Next ==
  \/ Tick
  \/ DoInit
  \/ \E a \in Agents, p \in Paths : DoClaim(a, p)
  \/ \E a \in Agents, p \in Paths : DoRelease(a, p)
  \/ \E a \in Agents : DoReleaseAll(a)

Spec == Init /\ [][Next]_vars

\* ------------------- FaultSpec: handlers whose file-system calls may fail
\* The file-system calls of ClaimFile and ReleaseFile that return an error
\* to the handler: os.ReadFile in loadClaims (claims.go:150-155),
\* os.WriteFile in saveClaims (claims.go:176), and os.OpenFile or f.Write in
\* Publish (bus.go:49-55).  "none": every call succeeds.
Faults == {"none", "load", "save", "publish"}

\* loadClaims when os.ReadFile fails with an error other than not-exist
loadClaimsErr(fault) == IF fault = "load" THEN StorageFailure ELSE Nil

\* saveClaims when os.WriteFile may fail to open claims.json
saveClaimsUnder(f, claims, fault) ==
  IF fault = "save" THEN [fs |-> f, err |-> StorageFailure]
  ELSE saveClaims(f, claims)

\* Publish when messages.jsonl may fail to open or to take the write
PublishUnder(f, t, msg, fault) ==
  IF fault = "publish" THEN [fs |-> f, err |-> StorageFailure]
  ELSE Publish(f, t, msg)

\* ClaimFile (claims.go:23-58) with the failing call as an input
ClaimFileUnder(f, t, agentName, filePath, fault) ==
  LET d == ClaimDecide(loadClaims(f), t, agentName, filePath)
      s == saveClaimsUnder(f, d.claims, fault)
  IN IF loadClaimsErr(fault) # Nil THEN [fs |-> f, err |-> loadClaimsErr(fault)]
     ELSE IF ~d.write THEN [fs |-> f, err |-> d.err]
     ELSE IF s.err # Nil THEN s
     ELSE PublishUnder(s.fs, t,
                       Message(MsgClaim, agentName, 0, FileData(filePath)), fault)

\* ReleaseFile (claims.go:63-96) with the failing call as an input
ReleaseFileUnder(f, t, agentName, filePath, fault) ==
  LET d == ReleaseDecide(loadClaims(f), agentName, filePath)
      s == saveClaimsUnder(f, d.claims, fault)
  IN IF loadClaimsErr(fault) # Nil THEN [fs |-> f, err |-> loadClaimsErr(fault)]
     ELSE IF ~d.write THEN [fs |-> f, err |-> d.err]
     ELSE IF s.err # Nil THEN s
     ELSE PublishUnder(s.fs, t,
                       Message(MsgRelease, agentName, 0, FileData(filePath)), fault)

DoClaimUnder(agentName, filePath, fault) ==
  /\ Initialized(fs)
  /\ LogRoom(fs)
  /\ Completed("claim", agentName, filePath,
               ClaimFileUnder(fs, now, agentName, filePath, fault))

DoReleaseUnder(agentName, filePath, fault) ==
  /\ Initialized(fs)
  /\ LogRoom(fs)
  /\ Completed("release", agentName, filePath,
               ReleaseFileUnder(fs, now, agentName, filePath, fault))

FaultNext ==
  \/ Tick
  \/ ~fs.dir /\ DoInit
  \/ \E a \in Agents, p \in ConcPaths, fault \in Faults : DoClaimUnder(a, p, fault)
  \/ \E a \in Agents, p \in ConcPaths, fault \in Faults : DoReleaseUnder(a, p, fault)

FaultSpec == Init /\ [][FaultNext]_vars

\* ---------------------- NsSpec: the namespace under every kind of handler
\* Claims, notifications, state updates, Init and the read paths of the
\* `bus` view, one whole handler per action.

\* The statuses and branches agents report, and the notifications they send.
Statuses == {"working", "done"}
Branches == {"b1"}

\* A handler that returns a value besides its error.
Observed(op, arg, r) ==
  /\ fs' = r.fs
  /\ last' = [op |-> op, arg |-> arg, err |-> r.err, val |-> r.val,
              pre |-> fs, at |-> now]
  /\ UNCHANGED <<now, concVars>>

\* A handler that returns only an error.
NoValue(r) == [fs |-> r.fs, err |-> r.err, val |-> <<>>]

DoListClaims ==
  /\ Observed("list", <<>>, ListClaims(fs))
  /\ UNCHANGED sent

DoIsFileClaimed(filePath) ==
  /\ Observed("isClaimed", <<filePath>>, IsFileClaimed(fs, filePath))
  /\ UNCHANGED sent

DoGetState ==
  /\ Observed("getState", <<>>, GetState(fs))
  /\ UNCHANGED sent

DoUpdateAgentState(agentName, status, branch) ==
  /\ Initialized(fs)
  /\ Observed("update", <<agentName, status, branch>>,
              NoValue(UpdateAgentState(fs, now, agentName, status, branch)))
  /\ UNCHANGED sent

\* `agentctl notify`: Publish of a message built from the command line
DoPublish(msg) ==
  /\ Initialized(fs)
  /\ LET r == Publish(fs, now, msg)
     IN /\ Observed("publish", msg, NoValue(r))
        /\ sent' = IF r.err = Nil THEN Append(sent, msg) ELSE sent

\* The clock stands still in NsSpec: what is stated of it reads no time.
NsNext ==
  \/ DoInit
  \/ \E a \in Agents, p \in ConcPaths : DoClaim(a, p)
  \/ \E a \in Agents : LogRoom(fs) /\ DoPublish(Message(MsgPushed, a, 0, NoData))
  \/ \E a \in Agents, st \in Statuses, b \in Branches : DoUpdateAgentState(a, st, b)
  \/ DoListClaims
  \/ \E p \in ConcPaths : DoIsFileClaimed(p)
  \/ DoGetState

NsSpec == Init /\ [][NsNext]_vars

\* ------------------ RelevanceSpec: events of every type, read per agent
\* Agents publish events of every type, rebase_needed with and without a
\* target, and read the log whole and per agent.  The clock stands still.
MaxEvents == 2
MaxUpdates == 1    \* UpdateAgentState calls per process in UpdSpec

MessageTypes ==
  {MsgClaim, MsgRelease, MsgCommitted, MsgPushed, MsgPRCreated, MsgMerged,
   MsgRebaseNeeded}

\* `agentctl notify <agent> <repo> rebase_needed target=<agent>`
TargetData(agentName) == [k \in {"target"} |-> agentName]
BranchData == [k \in {"branch"} |-> "main"]

\* The caller sets Message.Timestamp to an instant the clock never reaches.
CallerTime == 9

RelevanceMessages ==
  {Message(t, a, ZeroTime, NoData) : t \in MessageTypes, a \in Agents}
    \cup {Message(MsgRebaseNeeded, a, ZeroTime, TargetData(b)) : a \in Agents, b \in Agents}

EventRoom(f) == Len(f.messages.content) < MaxEvents

DoReadMessages ==
  /\ Observed("readAll", <<>>, ReadMessages(fs))
  /\ UNCHANGED sent

DoReadMessagesSince(since) ==
  /\ Observed("readSince", <<since>>, ReadMessagesSince(fs, since))
  /\ UNCHANGED sent

DoReadMessagesForAgent(agentName) ==
  /\ Observed("readForAgent", <<agentName>>, ReadMessagesForAgent(fs, agentName))
  /\ UNCHANGED sent

DoHasRebaseNeeded(agentName, since) ==
  /\ Observed("hasRebaseNeeded", <<agentName, since>>,
              HasRebaseNeeded(fs, agentName, since))
  /\ UNCHANGED sent

RelevanceNext ==
  \/ DoInit
  \/ \E msg \in RelevanceMessages : EventRoom(fs) /\ DoPublish(msg)
  \/ DoReadMessages
  \/ \E x \in Agents : DoReadMessagesForAgent(x)

RelevanceSpec == Init /\ [][RelevanceNext]_vars

\* ------------------------ SinceSpec: events over time, read since an instant
\* The clock advances between publishes; readers ask for what came after an
\* instant.  Callers hand Publish timestamps of their own.
SinceMessages ==
  {Message(MsgPushed, "a1", ZeroTime, NoData),
   Message(MsgPushed, "a1", CallerTime, BranchData)}
    \cup {Message(MsgRebaseNeeded, "a1", ZeroTime, data) :
            data \in {BranchData, TargetData("a1"), TargetData("a2")}}

SinceNext ==
  \/ Tick
  \/ DoInit
  \/ \E msg \in SinceMessages : EventRoom(fs) /\ DoPublish(msg)
  \/ DoReadMessages
  \/ \E since \in 0..MaxTime : DoReadMessagesSince(since)
  \/ \E x \in Agents, since \in 0..MaxTime : DoHasRebaseNeeded(x, since)

SinceSpec == Init /\ [][SinceNext]_vars

\* ------------------------- TornSpec: publishers that die while writing
\* A process killed inside f.Write (bus.go:55) leaves the first bytes of its
\* line in the file: all of the JSON object but the newline (whole), or less.
TornLine(msg, t, whole) ==
  [json |-> whole, nl |-> FALSE,
   obj |-> IF whole THEN MarshalMessage(Stamp(msg, t)) ELSE NoData]

TornMessages ==
  {Message(MsgPushed, "a1", ZeroTime, NoData),
   Message(MsgRebaseNeeded, "a2", ZeroTime, TargetData("a1"))}

\* Room for a line before and a line after a broken one.
TornRoom(f) == Len(f.messages.content) < MaxEvents + 1

\* Publish up to the middle of its write; the call never returns.
DoTornPublish(msg, whole) ==
  /\ Initialized(fs)
  /\ fs' = [fs EXCEPT !.messages =
              File(AppendBytes(fs.messages.content, TornLine(msg, now, whole)))]
  /\ last' = [op |-> "torn", arg |-> msg, err |-> Nil, val |-> <<>>,
              pre |-> fs, at |-> now]
  /\ UNCHANGED <<now, sent, concVars>>

TornNext ==
  \/ Tick
  \/ DoInit
  \/ \E msg \in TornMessages : TornRoom(fs) /\ DoPublish(msg)
  \/ \E msg \in TornMessages, whole \in BOOLEAN : TornRoom(fs) /\ DoTornPublish(msg, whole)
  \/ DoReadMessages
  \/ \E since \in 0..MaxTime : DoReadMessagesSince(since)
  \/ \E x \in Agents : DoReadMessagesForAgent(x)
  \/ \E since \in 0..MaxTime : DoHasRebaseNeeded("a1", since)

TornSpec == Init /\ [][TornNext]_vars

\* ------------------------------- ConcSpec: one file-system call per action
\* Each agent is a process of its own (spec section 5).  A process runs one
\* handler at a time; pc names the file-system call it makes next.  ReadFile,
\* WriteFile, Stat and the O_APPEND write are each one atomic step.

\* The handler returns err to its caller.
Return(self, err) ==
  /\ pc' = [pc EXCEPT ![self] = "returned"]
  /\ ret' = [ret EXCEPT ![self] = err]

\* The handler moves on to its next file-system call.
Goto(self, label) ==
  /\ pc' = [pc EXCEPT ![self] = label]
  /\ UNCHANGED ret

\* The processes that are inside ReleaseAllForAgent.
InReleaseAll ==
  {q \in Procs : pc[q] \in {"load", "save"} /\ call[q].op = "releaseAll"}

\* self was told that it holds filePath; created: by a claim it wrote itself.
ClaimGranted(self, filePath, created) ==
  /\ granted' = [granted EXCEPT ![filePath] = @ \cup {self}]
  /\ wonDuring' = [q \in Procs |->
       IF created /\ q \in InReleaseAll \ {self}
         THEN wonDuring[q] \cup {<<filePath, self>>}
         ELSE wonDuring[q]]

\* self wrote a claims map from which its own claims on the paths of gone
\* are removed.
ClaimsDropped(self, gone) ==
  /\ granted' = [p \in Paths |-> IF p \in gone THEN granted[p] \ {self} ELSE granted[p]]
  /\ wonDuring' = [q \in Procs |-> {w \in wonDuring[q] : ~(w[1] \in gone /\ w[2] = self)}]

\* A process starts a handler.
Begin(self, op, filePath, label) ==
  /\ pc[self] = "idle"
  /\ calls[self] < MaxCalls
  /\ calls' = [calls EXCEPT ![self] = @ + 1]
  /\ call' = [call EXCEPT ![self] = [op |-> op, agent |-> self, path |-> filePath]]
  /\ Goto(self, label)
  /\ UNCHANGED <<fs, now, last, sent, mem, out, granted, wonDuring>>

\* main.go "claim": ClaimFile(repoURL, self, filePath) begins
CallClaim(self, filePath) ==
  /\ Initialized(fs)
  /\ Begin(self, "claim", filePath, "load")

\* main.go "release": ReleaseFile(repoURL, self, filePath) begins
CallRelease(self, filePath) ==
  /\ Begin(self, "release", filePath, "load")

\* RunUntilDone: ReleaseAllForAgent(repoURL, self) begins
CallReleaseAll(self) ==
  /\ Initialized(fs)
  /\ Begin(self, "releaseAll", "", "load")

\* coordination.Init(repoURL) begins
CallInit(self) ==
  Begin(self, "init", "", "mkdir")

\* The caller has the result; the process is free for its next call.
Resume(self) ==
  /\ pc[self] = "returned"
  /\ pc' = [pc EXCEPT ![self] = "idle"]
  /\ call' = [call EXCEPT ![self] = NoCall]
  /\ ret' = [ret EXCEPT ![self] = Nil]
  /\ wonDuring' = [wonDuring EXCEPT ![self] = {}]
  /\ UNCHANGED <<fs, now, last, sent, calls, mem, out, granted>>

\* ClaimFile: loadClaims, then the decision on the map in memory
ClaimLoad(self) ==
  /\ pc[self] = "load" /\ call[self].op = "claim"
  /\ LET d == ClaimDecide(loadClaims(fs), now, self, call[self].path)
     IN IF d.write
          THEN /\ mem' = [mem EXCEPT ![self] = d.claims]
               /\ Goto(self, "save")
               /\ UNCHANGED <<granted, wonDuring>>
          ELSE /\ Return(self, d.err)
               /\ IF d.err = Nil
                    THEN ClaimGranted(self, call[self].path, FALSE)
                    ELSE UNCHANGED <<granted, wonDuring>>
               /\ UNCHANGED mem
  /\ UNCHANGED <<fs, now, last, sent, call, calls, out>>

\* ReleaseFile: loadClaims, then the decision on the map in memory
ReleaseLoad(self) ==
  /\ pc[self] = "load" /\ call[self].op = "release"
  /\ LET d == ReleaseDecide(loadClaims(fs), self, call[self].path)
     IN IF d.write
          THEN /\ mem' = [mem EXCEPT ![self] = d.claims]
               /\ Goto(self, "save")
          ELSE /\ Return(self, d.err)
               /\ UNCHANGED mem
  /\ UNCHANGED <<fs, now, last, sent, call, calls, out, granted, wonDuring>>

\* ReleaseAllForAgent: loadClaims, then the delete loop on the map in memory
ReleaseAllLoad(self) ==
  /\ pc[self] = "load" /\ call[self].op = "releaseAll"
  /\ mem' = [mem EXCEPT ![self] = DeleteAllOf(loadClaims(fs), self)]
  /\ Goto(self, "save")
  /\ UNCHANGED <<fs, now, last, sent, call, calls, out, granted, wonDuring>>

\* saveClaims of the map in memory.  ClaimFile and ReleaseFile go on to
\* Publish, ReleaseAllForAgent returns.
Save(self) ==
  /\ pc[self] = "save"
  /\ LET s == saveClaims(fs, mem[self])
         op == call[self].op
     IN /\ fs' = s.fs
        /\ IF s.err # Nil \/ op = "releaseAll"
             THEN Return(self, s.err) /\ UNCHANGED out
             ELSE /\ Goto(self, "stamp")
                  /\ out' = [out EXCEPT ![self] =
                       Message(IF op = "claim" THEN MsgClaim ELSE MsgRelease,
                               self, 0, FileData(call[self].path))]
        /\ IF s.err = Nil /\ op = "release" THEN ClaimsDropped(self, {call[self].path})
           ELSE IF s.err = Nil /\ op = "releaseAll" THEN ClaimsDropped(self, Paths)
           ELSE UNCHANGED <<granted, wonDuring>>
  /\ mem' = [mem EXCEPT ![self] = EmptyClaims]
  /\ UNCHANGED <<now, last, sent, call, calls>>

\* Publish: msg.Timestamp = time.Now() and the marshalling of the line
PublishStamp(self) ==
  /\ pc[self] = "stamp"
  /\ out' = [out EXCEPT ![self] = Stamp(@, now)]
  /\ Goto(self, "append")
  /\ UNCHANGED <<fs, now, last, sent, call, calls, mem, granted, wonDuring>>

\* Publish: the O_APPEND write of the line; the handler returns its error
PublishAppend(self) ==
  /\ pc[self] = "append"
  /\ LET s == AppendLine(fs, JsonLine(MarshalMessage(out[self])))
     IN /\ fs' = s.fs
        /\ Return(self, s.err)
        /\ IF s.err = Nil /\ call[self].op = "claim"
             THEN ClaimGranted(self, call[self].path, TRUE)
             ELSE UNCHANGED <<granted, wonDuring>>
        /\ sent' = IF s.err = Nil /\ call[self].op = "publish"
                     THEN Append(sent, out[self]) ELSE sent
  /\ out' = [out EXCEPT ![self] = NoMessage]
  /\ UNCHANGED <<now, last, call, calls, mem>>

\* Init: os.MkdirAll
InitMkdir(self) ==
  /\ pc[self] = "mkdir"
  /\ fs' = [fs EXCEPT !.dir = TRUE]
  /\ Goto(self, "stat_claims")
  /\ UNCHANGED <<now, last, sent, call, calls, mem, out, granted, wonDuring>>

\* The files Init looks at in its three blocks, the default it writes to
\* each, and the block that follows.
InitFiles == {"claims", "messages", "state"}
InitEmpty(file) ==
  CASE file = "claims" -> EmptyClaims
    [] file = "messages" -> <<>>
    [] file = "state" -> EmptyState
AfterInitFile(file) ==
  CASE file = "claims" -> "stat_messages"
    [] file = "messages" -> "stat_state"
    [] file = "state" -> "return"

InitBlockDone(self, file) ==
  IF AfterInitFile(file) = "return"
    THEN Return(self, Nil)
    ELSE Goto(self, AfterInitFile(file))

\* Init: os.Stat of one file; the block is skipped when the file exists
InitStat(self, file) ==
  /\ pc[self] = "stat_" \o file
  /\ IF fs[file].exists
       THEN InitBlockDone(self, file)
       ELSE Goto(self, "write_" \o file)
  /\ UNCHANGED <<fs, now, last, sent, call, calls, mem, out, granted, wonDuring>>

\* Init: os.WriteFile of the empty default, after Stat found no file
InitWrite(self, file) ==
  /\ pc[self] = "write_" \o file
  /\ fs' = [fs EXCEPT ![file] = File(InitEmpty(file))]
  /\ InitBlockDone(self, file)
  /\ UNCHANGED <<now, last, sent, call, calls, mem, out, granted, wonDuring>>

ConcNext ==
  \/ Tick
  \/ \E self \in Procs, p \in ConcPaths : CallClaim(self, p)
  \/ \E self \in Procs, p \in ConcPaths : CallRelease(self, p)
  \/ \E self \in Procs : CallReleaseAll(self)
  \/ \E self \in Procs : CallInit(self)
  \/ \E self \in Procs : Resume(self)
  \/ \E self \in Procs : ClaimLoad(self)
  \/ \E self \in Procs : ReleaseLoad(self)
  \/ \E self \in Procs : ReleaseAllLoad(self)
  \/ \E self \in Procs : Save(self)
  \/ \E self \in Procs : PublishStamp(self)
  \/ \E self \in Procs : PublishAppend(self)
  \/ \E self \in Procs : InitMkdir(self)
  \/ \E self \in Procs, file \in InitFiles : InitStat(self, file)
  \/ \E self \in Procs, file \in InitFiles : InitWrite(self, file)

ConcSpec == Init /\ [][ConcNext]_vars

\* ------------------------------------- PubSpec: concurrent publishers
\* The namespace is initialized once; then the processes publish at will,
\* each Publish a clock reading followed by an O_APPEND write.
PubMessages(self) == {Message(MsgPushed, self, ZeroTime, NoData)}

\* main.go "notify": Publish(repoURL, msg) begins
CallPublish(self, msg) ==
  /\ Initialized(fs)
  /\ pc[self] = "idle"
  /\ calls[self] < MaxCalls
  /\ calls' = [calls EXCEPT ![self] = @ + 1]
  /\ call' = [call EXCEPT ![self] = [op |-> "publish", agent |-> self, path |-> ""]]
  /\ out' = [out EXCEPT ![self] = msg]
  /\ Goto(self, "stamp")
  /\ UNCHANGED <<fs, now, last, sent, mem, granted, wonDuring>>

PubNext ==
  \/ Tick
  \/ ~fs.dir /\ DoInit
  \/ \E self \in Procs : \E msg \in PubMessages(self) : CallPublish(self, msg)
  \/ \E self \in Procs : PublishStamp(self)
  \/ \E self \in Procs : PublishAppend(self)
  \/ \E self \in Procs : Resume(self)

PubSpec == Init /\ [][PubNext]_vars

\* ------------------------------------------------ properties of Spec
\* The tables as a reader finds them now, and as the last call found them.
Table == loadClaims(fs)
Log == readMessagesFromDir(fs)
PreTable == loadClaims(last.pre)
PreLog == readMessagesFromDir(last.pre)

\* The log is the log before the call plus one event of this type by the
\* caller that names the call's path.
OneEventAppended(type) ==
  /\ Len(Log) = Len(PreLog) + 1
  /\ SubSeq(Log, 1, Len(PreLog)) = PreLog
  /\ Log[Len(Log)].type = type
  /\ Log[Len(Log)].agent = last.agent
  /\ DOMAIN Log[Len(Log)].data = {"file"}
  /\ Log[Len(Log)].data["file"] = last.path

ClaimOnUnclaimed == last.op = "claim" /\ last.path \notin DOMAIN PreTable
ClaimBySameAgent ==
  /\ last.op = "claim"
  /\ last.path \in DOMAIN PreTable
  /\ PreTable[last.path].agent = last.agent
ClaimByOtherAgent ==
  /\ last.op = "claim"
  /\ last.path \in DOMAIN PreTable
  /\ PreTable[last.path].agent # last.agent
ReleaseByHolder ==
  /\ last.op = "release"
  /\ last.path \in DOMAIN PreTable
  /\ PreTable[last.path].agent = last.agent
ReleaseByOtherAgent ==
  /\ last.op = "release"
  /\ last.path \in DOMAIN PreTable
  /\ PreTable[last.path].agent # last.agent
ReleaseOnUnclaimed == last.op = "release" /\ last.path \notin DOMAIN PreTable

\* C2: claim(agent, path) on an unclaimed path succeeds, adds exactly the
\* entry path -> agent to the claims table, leaves every other entry as it
\* was, and appends exactly one claim event by that agent naming that path.
C2_ClaimCreates ==
  ClaimOnUnclaimed =>
    /\ last.err = Nil
    /\ DOMAIN Table = DOMAIN PreTable \cup {last.path}
    /\ Table[last.path].agent = last.agent
    /\ Table[last.path].file = last.path
    /\ \A q \in DOMAIN PreTable : Table[q] = PreTable[q]
    /\ OneEventAppended(MsgClaim)

C2_Witness ==
  /\ ClaimOnUnclaimed
  /\ DOMAIN PreTable # {}
  /\ PreLog # <<>>
  /\ last.path \in DOMAIN Table

\* C3: claim(a, p) while a already holds p succeeds and changes nothing:
\* same holder, same claimedAt, same other claims, no further event.
C3_ClaimIdempotent ==
  ClaimBySameAgent =>
    /\ last.err = Nil
    /\ Table = PreTable
    /\ Table[last.path].agent = last.agent
    /\ Table[last.path].claimed_at = PreTable[last.path].claimed_at
    /\ Log = PreLog

C3_Witness ==
  /\ ClaimBySameAgent
  /\ last.err = Nil
  /\ now > PreTable[last.path].claimed_at
  /\ Cardinality(DOMAIN PreTable) > 1

\* C4: claim(b, p) while another agent a holds p fails with a Conflict that
\* names a and the (whole-second) time a claimed p; table and log are as
\* they were before the call.
C4_ClaimConflict ==
  ClaimByOtherAgent =>
    /\ last.err.kind = "Conflict"
    /\ last.err.heldBy = PreTable[last.path].agent
    /\ last.err.since * TicksPerSecond <= PreTable[last.path].claimed_at
    /\ PreTable[last.path].claimed_at < (last.err.since + 1) * TicksPerSecond
    /\ Table = PreTable
    /\ Log = PreLog

C4_Witness ==
  /\ ClaimByOtherAgent
  /\ last.err.kind = "Conflict"
  /\ PreTable[last.path].claimed_at % TicksPerSecond # 0

\* C5: release(agent, path) by the holder succeeds, removes exactly that
\* claim, and appends exactly one release event by that agent naming path.
C5_ReleaseRemoves ==
  ReleaseByHolder =>
    /\ last.err = Nil
    /\ DOMAIN Table = DOMAIN PreTable \ {last.path}
    /\ \A q \in DOMAIN Table : Table[q] = PreTable[q]
    /\ OneEventAppended(MsgRelease)

C5_Witness ==
  /\ ReleaseByHolder
  /\ last.path \notin DOMAIN Table
  /\ DOMAIN Table # {}

\* C6: release(b, path) while another agent a holds path fails with a
\* Forbidden naming a; a still holds path, table and log are unchanged.
C6_ReleaseForbidden ==
  ReleaseByOtherAgent =>
    /\ last.err.kind = "Forbidden"
    /\ last.err.heldBy = PreTable[last.path].agent
    /\ last.path \in DOMAIN Table
    /\ Table[last.path].agent = PreTable[last.path].agent
    /\ Table = PreTable
    /\ Log = PreLog

C6_Witness ==
  /\ ReleaseByOtherAgent
  /\ last.err.kind = "Forbidden"
  /\ Cardinality(DOMAIN Table) > 1

\* C7: release(agent, path) on a path nobody holds succeeds and changes
\* neither the claims table nor the log.
C7_ReleaseUnclaimedNoop ==
  ReleaseOnUnclaimed =>
    /\ last.err = Nil
    /\ Table = PreTable
    /\ Log = PreLog
    /\ fs = last.pre

C7_Witness ==
  /\ ReleaseOnUnclaimed
  /\ last.err = Nil
  /\ DOMAIN PreTable # {}
  /\ PreLog # <<>>

\* C8: releaseAllForAgent(a), run on its own, removes every claim held by a,
\* leaves every other agent's claim as it was, and appends no event.
C8_ReleaseAllFrame ==
  last.op = "releaseAll" =>
    /\ last.err = Nil
    /\ DOMAIN Table = {q \in DOMAIN PreTable : PreTable[q].agent # last.agent}
    /\ \A q \in DOMAIN Table : Table[q] = PreTable[q]
    /\ Log = PreLog

C8_Witness ==
  /\ last.op = "releaseAll"
  /\ Cardinality({q \in DOMAIN PreTable : PreTable[q].agent = last.agent}) > 1
  /\ DOMAIN Table # {}
  /\ \A q \in DOMAIN Table : Table[q].agent # last.agent

\* ---------------------------------------------- properties of ConcSpec
\* C1: at most one agent holds a path at a time: two different agents are
\* never both told that their claim of the same path succeeded without a
\* release of that path in between.
C1_MutualExclusion ==
  \A p \in Paths : Cardinality(granted[p]) <= 1

\* C9: releaseAll(a) is atomic with respect to the other mutators: a claim
\* another agent obtained successfully while releaseAll(a) was in progress,
\* and has not released, is in the claims table when releaseAll(a) returns.
C9_ReleaseAllAtomic ==
  \A self \in Procs :
    (pc[self] = "returned" /\ call[self].op = "releaseAll" /\ ret[self] = Nil) =>
      \A w \in wonDuring[self] :
        w[1] \in DOMAIN Table /\ Table[w[1]].agent = w[2]

\* C10: a claim created by a successful claim(a, p) stays in the claims
\* table with holder a until release(a, p) or releaseAll(a) removes it,
\* whatever the other agents do in the meantime.
C10_ClaimPersists ==
  \A p \in Paths : \A a \in granted[p] :
    p \in DOMAIN Table /\ Table[p].agent = a

\* C13: the event log is append-only: whatever step any process takes
\* (publish, claim, release, releaseAll, initialize), the log read after the
\* step has the log read before it as a prefix.
C13_AppendOnly ==
  [][\A i \in 1..Len(Log) : i <= Len(Log') /\ Log'[i] = Log[i]]_vars

\* C21: initialize is safe under concurrency: no step of a process running
\* Init removes a claim from the table, an event from the log or an agent
\* from the state table that another process wrote.
C21_InitNeverClobbers ==
  [][(\E self \in Procs : call[self].op = "init" /\ pc'[self] # pc[self]) =>
       /\ \A p \in DOMAIN Table : p \in DOMAIN Table' /\ Table'[p] = Table[p]
       /\ Len(Log') >= Len(Log)
       /\ DOMAIN loadState(fs).agents \subseteq DOMAIN loadState(fs').agents]_vars

\* -------------------------------------------------------------- CtlSpec
\* container.RunUntilDone: the retry loop around the TaskExecutor (runClaude)
\* and the StatusProbe (getStatus).  One agent runs the controller; before
\* the run the agents claim files, during the run the others are quiet.  The
\* clock stands still.

MaxAttempts == 2   \* the largest max-attempts argument of `agentctl run`
DefaultAttempts == 10

\* `agentctl run <name> <task> [max-attempts]`: an integer strconv.Atoi
\* reads, here a negative one and the positive ones up to the bound
AttemptArgs == {-1} \cup (1..MaxAttempts)

\* Agent.Repo as loadAgent returns it; "" without a repository or agent file
RepoArgs == {"", "repo"}

\* getStatus: what the StatusProbe can report
TestStatuses == {"pass", "fail", "unknown"}
AgentStatuses == [TestStatus : TestStatuses, HasUncommitted : BOOLEAN]
NoStatus == [TestStatus |-> "", HasUncommitted |-> FALSE]

\* The zero TaskResult
NoResult ==
  [Completed |-> FALSE, TestsPassed |-> FALSE, HasChanges |-> FALSE,
   Error |-> "", Attempts |-> 0]

\* The prompt handed to the TaskExecutor: the task text with its rebase notes,
\* behind a recap of a status from the second attempt on.
NoPrompt == [recap |-> <<>>, notes |-> 0]

\* fmt.Errorf("task not completed after %d attempts", maxAttempts)
MaxAttemptsExceeded(maxAttempts) ==
  [kind |-> "MaxAttemptsExceeded", heldBy |-> "", since |-> -1, by |-> "",
   attempts |-> maxAttempts]

\* SaveHistory: the record replaces ~/.agentctl/history/<name>.json
SaveHistory(f, h) == [f EXCEPT !.history[h.Name] = File(h)]

\* A variant that also takes tests that pass over uncommitted changes.
IsComplete_TestsOnly(result) == result.TestsPassed

\* The test of the loop for "done": tests pass and nothing is uncommitted
IsComplete(result) == result.TestsPassed /\ ~result.HasChanges

\* A variant that stays on the same attempt.
NextAttempt_Same(attempt) == attempt

\* attempt++ of the for loop
NextAttempt(attempt) == attempt + 1

\* The for loop's test: the next state of the controller
LoopTest(attempt, maxAttempts) ==
  IF attempt <= maxAttempts THEN "working" ELSE "blocked"

\* A variant that writes the status whether or not coordination is on.
SetStatus_Always(f, t, repoURL, name, status) ==
  UpdateAgentState(f, t, name, status, "").fs

\* A variant that writes a table holding this agent's record alone.
SetStatus_Alone(f, t, repoURL, name, status) ==
  IF repoURL # ""
    THEN saveState(f, [agents |-> Put(EmptyClaims, name,
                                      AgentState(name, "", status, t)),
                       last_updated |-> Text(FormatRFC3339(t))]).fs
    ELSE f

\* coordination.UpdateAgentState(repoURL, name, status, "") with the error
\* ignored, when coordination is on
SetStatus(f, t, repoURL, name, status) ==
  IF repoURL # "" THEN UpdateAgentState(f, t, name, status, "").fs ELSE f

\* A variant without the default.
EffectiveAttempts_AsGiven(n) == n

\* maxAttempts as the loop uses it: 0 stands for the default
EffectiveAttempts(n) == IF n = 0 THEN DefaultAttempts ELSE n

\* RunUntilDone begins: the default, loadAgent, coordination.Init, loopStart
CtlStart(self, n, repo, initFails) ==
  /\ \A q \in Procs : pc[q] = "idle"
  /\ LET repoURL == IF initFails THEN "" ELSE repo
         maxAttempts == EffectiveAttempts(n)
     IN /\ fs' = IF repoURL # "" THEN CoordinationInit(fs).fs ELSE fs
        /\ mem' = [mem EXCEPT ![self] =
             [maxAttempts |-> maxAttempts, repoURL |-> repoURL,
              loopStart |-> now, attempt |-> 1, notes |-> 0,
              prompt |-> NoPrompt, result |-> NoResult,
              execErr |-> FALSE, status |-> NoStatus,
              runs |-> 0, evals |-> 0, passes |-> 0,
              claims |-> loadClaims(fs)]]
        /\ Goto(self, LoopTest(1, maxAttempts))
  /\ call' = [call EXCEPT ![self] = [op |-> "run", agent |-> self, path |-> ""]]
  /\ UNCHANGED <<now, last, sent, calls, out, granted, wonDuring>>

\* A variant that begins the attempt without writing the status.
CtlWorking_Silent(self) ==
  /\ pc[self] = "working"
  /\ mem' = [mem EXCEPT ![self].result.Attempts = mem[self].attempt]
  /\ Goto(self, "checking")
  /\ UNCHANGED <<fs, now, last, sent, call, calls, out, granted, wonDuring>>

\* The attempt begins: result.Attempts, then status "working"
CtlWorking(self) ==
  /\ pc[self] = "working"
  /\ fs' = SetStatus(fs, now, mem[self].repoURL, self, "working")
  /\ mem' = [mem EXCEPT ![self].result.Attempts = mem[self].attempt]
  /\ Goto(self, "checking")
  /\ UNCHANGED <<now, last, sent, call, calls, out, granted, wonDuring>>

\* A variant that looks for signals since the attempt began.
CtlCheckRebase_SinceAttempt(self) ==
  /\ pc[self] = "checking"
  /\ mem' = [mem EXCEPT ![self].notes =
       IF /\ mem[self].repoURL # ""
          /\ HasRebaseNeeded(fs, self, now).val
         THEN @ + 1 ELSE @]
  /\ Goto(self, "executing")
  /\ UNCHANGED <<fs, now, last, sent, call, calls, out, granted, wonDuring>>

\* HasRebaseNeeded since loopStart; the note is appended to the task
CtlCheckRebase(self) ==
  /\ pc[self] = "checking"
  /\ mem' = [mem EXCEPT ![self].notes =
       IF /\ mem[self].repoURL # ""
          /\ HasRebaseNeeded(fs, self, mem[self].loopStart).val
         THEN @ + 1 ELSE @]
  /\ Goto(self, "executing")
  /\ UNCHANGED <<fs, now, last, sent, call, calls, out, granted, wonDuring>>

\* A variant that gives up when runClaude returns an error.
CtlExecute_Abort(self, status, execErr) ==
  /\ pc[self] = "executing"
  /\ mem' = [mem EXCEPT ![self].prompt =
                         [recap |-> IF mem[self].attempt > 1 THEN <<status>> ELSE <<>>,
                          notes |-> mem[self].notes],
                       ![self].execErr = execErr,
                       ![self].runs = @ + 1]
  /\ Goto(self, IF execErr THEN "blocked" ELSE "evaluating")
  /\ UNCHANGED <<fs, now, last, sent, call, calls, out, granted, wonDuring>>

\* The prompt is built (with the status getStatus reports now, from the
\* second attempt on) and runClaude runs; its error is only printed
CtlExecute(self, status, execErr) ==
  /\ pc[self] = "executing"
  /\ mem' = [mem EXCEPT ![self].prompt =
                         [recap |-> IF mem[self].attempt > 1 THEN <<status>> ELSE <<>>,
                          notes |-> mem[self].notes],
                       ![self].execErr = execErr,
                       ![self].runs = @ + 1]
  /\ Goto(self, "evaluating")
  /\ UNCHANGED <<fs, now, last, sent, call, calls, out, granted, wonDuring>>

\* getStatus after the settle delay; done, or the next turn of the loop, in
\* which the prompt of this one is out of scope
CtlEvaluate(self, status) ==
  /\ pc[self] = "evaluating"
  /\ LET result == [mem[self].result EXCEPT
                      !.TestsPassed = (status.TestStatus = "pass"),
                      !.HasChanges = status.HasUncommitted]
     IN IF IsComplete(result)
          THEN /\ mem' = [mem EXCEPT ![self].result = [result EXCEPT !.Completed = TRUE],
                                     ![self].prompt = NoPrompt,
                                     ![self].status = status,
                                     ![self].evals = @ + 1,
                                     ![self].passes = @ + 1]
               /\ Goto(self, "done")
          ELSE /\ mem' = [mem EXCEPT ![self].result = result,
                                     ![self].prompt = NoPrompt,
                                     ![self].status = status,
                                     ![self].evals = @ + 1,
                                     ![self].attempt = NextAttempt(@)]
               /\ Goto(self, LoopTest(NextAttempt(mem[self].attempt),
                                      mem[self].maxAttempts))
  /\ UNCHANGED <<fs, now, last, sent, call, calls, out, granted, wonDuring>>

\* A variant that leaves the agent's claims in place.
CtlDone_KeepClaims(self) ==
  /\ pc[self] = "done"
  /\ fs' = SaveHistory(SetStatus(fs, now, mem[self].repoURL, self, "done"),
            [Name |-> self, Repo |-> mem[self].repoURL,
             Created |-> mem[self].loopStart, CompletedAt |-> now,
             Result |-> "success", Attempts |-> mem[self].attempt])
  /\ Return(self, Nil)
  /\ UNCHANGED <<now, last, sent, call, calls, mem, out, granted, wonDuring>>

\* Done: status "done", ReleaseAllForAgent, SaveHistory, return result, nil
CtlDone(self) ==
  /\ pc[self] = "done"
  /\ LET marked == SetStatus(fs, now, mem[self].repoURL, self, "done")
         released == IF mem[self].repoURL # ""
                       THEN ReleaseAllForAgent(marked, self).fs ELSE marked
     IN fs' = SaveHistory(released,
                [Name |-> self, Repo |-> mem[self].repoURL,
                 Created |-> mem[self].loopStart, CompletedAt |-> now,
                 Result |-> "success", Attempts |-> mem[self].attempt])
  /\ Return(self, Nil)
  /\ UNCHANGED <<now, last, sent, call, calls, mem, out, granted, wonDuring>>

\* A variant that releases the agent's claims as Done does.
CtlBlocked_Release(self) ==
  /\ pc[self] = "blocked"
  /\ fs' = ReleaseAllForAgent(
             SetStatus(fs, now, mem[self].repoURL, self, "blocked"), self).fs
  /\ mem' = [mem EXCEPT ![self].result.Error = "max attempts reached"]
  /\ Return(self, MaxAttemptsExceeded(mem[self].maxAttempts))
  /\ UNCHANGED <<now, last, sent, call, calls, out, granted, wonDuring>>

\* The loop is over: status "blocked", result.Error, the error is returned
CtlBlocked(self) ==
  /\ pc[self] = "blocked"
  /\ fs' = SetStatus(fs, now, mem[self].repoURL, self, "blocked")
  /\ mem' = [mem EXCEPT ![self].result.Error = "max attempts reached"]
  /\ Return(self, MaxAttemptsExceeded(mem[self].maxAttempts))
  /\ UNCHANGED <<now, last, sent, call, calls, out, granted, wonDuring>>

\* Before the run: the namespace is set up and the agents claim files.
Quiet == \A q \in Procs : pc[q] = "idle"

\* The steps of the controller.
CtlStep(self) ==
  \/ CtlWorking(self)
  \/ CtlCheckRebase(self)
  \/ \E status \in AgentStatuses, execErr \in BOOLEAN :
       CtlExecute(self, status, execErr)
  \/ \E status \in AgentStatuses : CtlEvaluate(self, status)
  \/ CtlDone(self)
  \/ CtlBlocked(self)

CtlNext ==
  \/ Quiet /\ DoInit
  \/ \E a \in Agents, p \in ConcPaths : Quiet /\ DoClaim(a, p)
  \/ \E self \in Procs, n \in AttemptArgs, repo \in RepoArgs, initFails \in BOOLEAN :
       CtlStart(self, n, repo, initFails)
  \/ \E self \in Procs : CtlStep(self)

CtlSpec == Init /\ [][CtlNext]_vars

\* CtlSpec without the claims made before the run.
CtlFairNext ==
  \/ Quiet /\ DoInit
  \/ \E self \in Procs, n \in AttemptArgs, repo \in RepoArgs, initFails \in BOOLEAN :
       CtlStart(self, n, repo, initFails)
  \/ \E self \in Procs : CtlStep(self)

\* The executor and the probe return, and the process is scheduled: every
\* step of a running controller is eventually taken.
CtlFairSpec ==
  Init /\ [][CtlFairNext]_vars /\ \A self \in Procs : WF_vars(CtlStep(self))

\* ----------------------------------------------------------- DefaultSpec
\* `agentctl run` with max-attempts 0, the value RunUntilDone takes as unset,
\* in a namespace no agent has claimed in.

DefaultNext ==
  \/ \E self \in Procs, repo \in RepoArgs : CtlStart(self, 0, repo, FALSE)
  \/ \E self \in Procs : CtlStep(self)

DefaultSpec == Init /\ [][DefaultNext]_vars

\* ------------------------------------------------------------ RebaseSpec
\* The controller of an agent with a repository while the clock runs and
\* agents publish rebase_needed signals, before and during the run.

\* A signal for everyone, a signal for a1 (another agent's, when a2 runs the
\* controller) and an event that is no signal.
RebaseMessages ==
  {Message(MsgRebaseNeeded, "a2", ZeroTime, NoData),
   Message(MsgRebaseNeeded, "a2", ZeroTime, TargetData("a1")),
   Message(MsgPushed, "a2", ZeroTime, NoData)}

\* What the probe reports in RebaseSpec: tests that fail, tests that pass
RebaseStatuses ==
  {[TestStatus |-> t, HasUncommitted |-> FALSE] : t \in {"fail", "pass"}}

RebaseNext ==
  \/ Tick
  \/ Quiet /\ ~fs.dir /\ DoInit
  \/ \E msg \in RebaseMessages : EventRoom(fs) /\ DoPublish(msg)
  \/ \E self \in Procs : CtlStart(self, MaxAttempts, "repo", FALSE)
  \/ \E self \in Procs : CtlWorking(self)
  \/ \E self \in Procs : CtlCheckRebase(self)
  \/ \E self \in Procs, status \in RebaseStatuses : CtlExecute(self, status, FALSE)
  \/ \E self \in Procs, status \in RebaseStatuses : CtlEvaluate(self, status)
  \/ \E self \in Procs : CtlDone(self)
  \/ \E self \in Procs : CtlBlocked(self)

RebaseSpec == Init /\ [][RebaseNext]_vars

\* -------------------------------------------------------------- UpdSpec
\* UpdateAgentState called by independent processes, one file-system call
\* at a time: ReadFile, then os.WriteFile's open with O_TRUNC and its write.
\* The clock stands still: the interleavings are what is stated.

BranchArgs == {"", "b1"}

UpdateArgs == [name : Agents, status : Statuses, branch : BranchArgs]

\* UpdateAgentState(repoURL, a.name, a.status, a.branch) begins
CallUpdate(self, a) ==
  /\ Initialized(fs)
  /\ pc[self] = "idle"
  /\ calls[self] < MaxUpdates
  /\ calls' = [calls EXCEPT ![self] = @ + 1]
  /\ call' = [call EXCEPT ![self] = [op |-> "update", agent |-> a.name, path |-> ""]]
  /\ out' = [out EXCEPT ![self] = a]
  /\ Goto(self, "read_state")
  /\ UNCHANGED <<fs, now, last, sent, mem, granted, wonDuring>>

\* loadState, then the new record and marker are set in the State in memory
UpdateLoad(self) ==
  /\ pc[self] = "read_state"
  /\ IF loadStateErr(fs) # Nil
       THEN /\ Return(self, loadStateErr(fs))
            /\ UNCHANGED mem
       ELSE /\ mem' = [mem EXCEPT ![self] =
                 [agents |-> Put(loadState(fs).agents, out[self].name,
                                 AgentState(out[self].name, out[self].branch,
                                            out[self].status, now)),
                  last_updated |-> Text(FormatRFC3339(now))]]
            /\ Goto(self, "open_state")
  /\ UNCHANGED <<fs, now, last, sent, call, calls, out, granted, wonDuring>>

\* saveState: os.WriteFile opens state.json with O_TRUNC
UpdateOpen(self) ==
  /\ pc[self] = "open_state"
  /\ IF fs.dir
       THEN /\ fs' = [fs EXCEPT !.state = Truncate(fs.state)]
            /\ Goto(self, "write_state")
       ELSE /\ Return(self, StorageFailure)
            /\ UNCHANGED fs
  /\ UNCHANGED <<now, last, sent, call, calls, mem, out, granted, wonDuring>>

\* saveState: os.WriteFile writes the marshalled State and closes the file
UpdateWrite(self) ==
  /\ pc[self] = "write_state"
  /\ fs' = [fs EXCEPT !.state = WriteAtStart(fs.state, MarshalState(mem[self]))]
  /\ last' = [op |-> "update",
              arg |-> <<out[self].name, out[self].status, out[self].branch>>,
              err |-> Nil, val |-> <<>>, pre |-> fs, at |-> now]
  /\ Return(self, Nil)
  /\ UNCHANGED <<now, sent, call, calls, mem, out, granted, wonDuring>>

UpdNext ==
  \/ ~fs.dir /\ DoInit
  \/ \E self \in Procs : \E a \in UpdateArgs : CallUpdate(self, a)
  \/ \E self \in Procs : UpdateLoad(self)
  \/ \E self \in Procs : UpdateOpen(self)
  \/ \E self \in Procs : UpdateWrite(self)
  \/ \E self \in Procs : Resume(self)

UpdSpec == Init /\ [][UpdNext]_vars

\* ------------------------------------------------------------ StateSpec
\* The agent state table used by one caller at a time: update, remove, get.

DoRemoveAgentState(agentName) ==
  /\ Observed("remove", <<agentName>>,
              NoValue(RemoveAgentState(fs, now, agentName)))
  /\ UNCHANGED sent

StateNext ==
  \/ Tick
  \/ DoInit
  \/ \E a \in Agents, st \in Statuses, b \in BranchArgs :
       DoUpdateAgentState(a, st, b)
  \/ \E a \in Agents : DoRemoveAgentState(a)
  \/ DoGetState

StateSpec == Init /\ [][StateNext]_vars

\* FrameSpec: a run in a namespace where the agents hold claims and have
\* reported their states before it starts.
FrameNext ==
  \/ Quiet /\ ~fs.dir /\ DoInit
  \/ \E a \in Agents, p \in ConcPaths : Quiet /\ DoClaim(a, p)
  \/ \E a \in Agents : Quiet /\ DoUpdateAgentState(a, "done", "b1")
  \/ \E self \in Procs, repo \in RepoArgs :
       CtlStart(self, MaxAttempts, repo, FALSE)
  \/ \E self \in Procs : CtlStep(self)

FrameSpec == Init /\ [][FrameNext]_vars

\* ------------------------------------------------- StateSpec properties

PreAgents == loadState(last.pre).agents
PostAgents == GetState(fs).val.agents

\* C22: a successful update(agent, status, branch) leaves a record whose
\* name, status and branch are exactly the arguments, leaves every other
\* agent's record as it was, and sets the namespace's last-updated marker.
C22_UpdateUpserts ==
  (last.op = "update" /\ last.err = Nil) =>
    LET a == last.arg[1]
    IN /\ DOMAIN PostAgents = DOMAIN PreAgents \cup {a}
       /\ PostAgents[a].name = a
       /\ PostAgents[a].status = last.arg[2]
       /\ PostAgents[a].branch = last.arg[3]
       /\ \A o \in DOMAIN PreAgents \ {a} : PostAgents[o] = PreAgents[o]
       /\ GetState(fs).val.last_updated = Text(FormatRFC3339(last.at))

\* an update with an empty branch over a record that had one, next to
\* another agent's record
C22_Witness ==
  /\ last.op = "update" /\ last.err = Nil
  /\ last.arg[3] = ""
  /\ last.arg[1] \in DOMAIN PreAgents
  /\ PreAgents[last.arg[1]].branch = "b1"
  /\ PreAgents[last.arg[1]].status # last.arg[2]
  /\ DOMAIN PreAgents \ {last.arg[1]} # {}

\* C23: remove(agent) deletes that agent's record and no other; in an
\* initialized namespace it succeeds whether or not the agent has a record,
\* and without a record it changes no record.
C23_RemoveOnlyThat ==
  last.op = "remove" =>
    LET a == last.arg[1]
    IN /\ Initialized(last.pre) => last.err = Nil
       /\ last.err = Nil =>
            /\ DOMAIN PostAgents = DOMAIN PreAgents \ {a}
            /\ \A o \in DOMAIN PostAgents : PostAgents[o] = PreAgents[o]
       /\ last.err # Nil => fs = last.pre

\* a remove of one of two recorded agents
C23_Witness ==
  /\ last.op = "remove" /\ last.err = Nil
  /\ last.arg[1] \in DOMAIN PreAgents
  /\ DOMAIN PostAgents # {}

\* --------------------------------------------------- CtlSpec properties

\* The processes that run, or have run, the controller.
Runs == {q \in Procs : call[q].op = "run"}

\* The runs that have returned, with success and with the failure.
Returned == {q \in Runs : pc[q] = "returned"}
Succeeded == {q \in Returned : ret[q] = Nil}
Failed == {q \in Returned : ret[q] # Nil}

PassClean(status) == status.TestStatus = "pass" /\ ~status.HasUncommitted

\* C25: with an executor and a probe that return, RunUntilDone returns; it
\* returns either success (Done) or the max-attempts failure (Blocked), never
\* both or neither; it has called the executor at most N times; and it fails
\* only when the attempts are exhausted without a passing evaluation.
C25_Terminates ==
  /\ \A q \in Procs : (call[q].op = "run") ~> (pc[q] = "returned")
  /\ [](\A q \in Runs :
         /\ mem[q].runs <= (IF mem[q].maxAttempts >= 1 THEN mem[q].maxAttempts ELSE 0)
         /\ q \in Returned =>
              /\ \/ ret[q] = Nil /\ mem[q].result.Completed
                 \/ /\ ret[q] = MaxAttemptsExceeded(mem[q].maxAttempts)
                    /\ ~mem[q].result.Completed
              /\ ret[q] # Nil =>
                   /\ mem[q].attempt > mem[q].maxAttempts
                   /\ mem[q].passes = 0
                   /\ mem[q].maxAttempts >= 1 => mem[q].evals = mem[q].maxAttempts)

\* a run that used up the largest number of attempts
C25_Witness ==
  \E q \in Failed : mem[q].maxAttempts = MaxAttempts /\ mem[q].runs = MaxAttempts

\* C26: the evaluation of attempt k leads to Done exactly when the probe
\* reports pass without uncommitted changes, and then no earlier evaluation
\* did and the result reports k attempts; any other probe result leads to
\* attempt k+1, or to Blocked when k = N.
C26_DoneIffPassClean ==
  [][\A q \in Runs :
       (pc[q] = "evaluating" /\ pc'[q] # "evaluating") =>
         /\ pc'[q] = "done" <=> PassClean(mem'[q].status)
         /\ pc'[q] = "done" =>
              /\ mem[q].passes = 0
              /\ mem'[q].evals = mem[q].attempt
              /\ mem'[q].result.Completed
              /\ mem'[q].result.Attempts = mem[q].attempt
         /\ pc'[q] # "done" =>
              /\ ~mem'[q].result.Completed
              /\ mem'[q].attempt = mem[q].attempt + 1
              /\ pc'[q] = IF mem[q].attempt < mem[q].maxAttempts
                             THEN "working" ELSE "blocked"]_vars

\* Done at the second attempt, after a first evaluation that did not pass
C26_Witness ==
  \E q \in Succeeded :
    /\ mem[q].result.Attempts = 2 /\ mem[q].evals = 2
    /\ PassClean(mem[q].status)

\* C27: when a run with coordination returns success, the agent's status is
\* done, the agent holds no claim, every claim of another agent is as it was
\* at entry, and the history record says success with the attempt count.
C27_DoneReleases ==
  \A q \in Succeeded :
    mem[q].repoURL # "" =>
      /\ q \in DOMAIN GetState(fs).val.agents
      /\ GetState(fs).val.agents[q].status = "done"
      /\ \A p \in DOMAIN Table : Table[p].agent # q
      /\ \A p \in DOMAIN mem[q].claims :
           mem[q].claims[p].agent # q =>
             p \in DOMAIN Table /\ Table[p] = mem[q].claims[p]
      /\ DOMAIN Table \subseteq DOMAIN mem[q].claims
      /\ fs.history[q].exists
      /\ fs.history[q].content.Result = "success"
      /\ fs.history[q].content.Attempts = mem[q].result.Attempts
      /\ fs.history[q].content.Attempts = mem[q].evals

\* success of an agent that held a claim next to a claim of another agent
C27_Witness ==
  \E q \in Succeeded :
    /\ mem[q].repoURL # ""
    /\ \E p \in DOMAIN mem[q].claims : mem[q].claims[p].agent = q
    /\ \E p \in DOMAIN mem[q].claims : mem[q].claims[p].agent # q

\* C28: a run of N >= 1 attempts without a passing evaluation returns the
\* max-attempts failure; the result reports N attempts and what the last
\* probe observed; with coordination the agent's status is blocked; and the
\* claims table is as it was at entry.
C28_BlockedKeepsClaims ==
  \A q \in Returned :
    /\ mem[q].passes = 0 => q \in Failed
    /\ q \in Failed =>
         /\ ret[q] = MaxAttemptsExceeded(mem[q].maxAttempts)
         /\ ~mem[q].result.Completed
         /\ mem[q].maxAttempts >= 1 =>
              /\ mem[q].result.Attempts = mem[q].maxAttempts
              /\ mem[q].result.TestsPassed = (mem[q].status.TestStatus = "pass")
              /\ mem[q].result.HasChanges = mem[q].status.HasUncommitted
         /\ mem[q].repoURL # "" =>
              /\ q \in DOMAIN GetState(fs).val.agents
              /\ GetState(fs).val.agents[q].status = "blocked"
         /\ Table = mem[q].claims

\* the failure of an agent that holds a claim, after the most attempts
C28_Witness ==
  \E q \in Failed :
    /\ mem[q].repoURL # ""
    /\ mem[q].maxAttempts = MaxAttempts
    /\ \E p \in DOMAIN Table : Table[p].agent = q

\* What follows an evaluation, from the probe's result and the attempt alone.
Outcome(status, attempt, maxAttempts) ==
  IF PassClean(status) THEN "done"
  ELSE IF attempt < maxAttempts THEN "working" ELSE "blocked"

\* C30: whatever the executor returned, the probe is evaluated for the
\* attempt, and what follows is decided by the probe's result and the
\* attempt number alone.
C30_ExecutorErrorIgnored ==
  [][\A q \in Runs :
       /\ (pc[q] = "executing" /\ pc'[q] # "executing") =>
            /\ pc'[q] = "evaluating"
            /\ mem'[q].runs = mem[q].attempt
       /\ (pc[q] = "evaluating" /\ pc'[q] # "evaluating") =>
            /\ mem'[q].evals = mem[q].runs
            /\ pc'[q] = Outcome(mem'[q].status, mem[q].attempt, mem[q].maxAttempts)]_vars

\* success of an attempt whose executor returned an error
C30_Witness ==
  \E q \in Succeeded : mem[q].execErr /\ mem[q].evals = mem[q].runs

\* C31: a run without coordination (no repository, or Init failed at entry)
\* leaves the claims table, the event log and the state table as they are in
\* each of its steps, adds no rebase note, and returns success exactly when
\* an evaluation passed, failure after N evaluations otherwise.
C31_BestEffort ==
  /\ [][\A q \in Procs :
          (call'[q].op = "run" /\ mem'[q].repoURL = "" /\ pc'[q] # pc[q]) =>
            /\ fs'.dir = fs.dir
            /\ fs'.claims = fs.claims
            /\ fs'.messages = fs.messages
            /\ fs'.state = fs.state
            /\ mem'[q].notes = 0]_vars
  /\ [](\A q \in Returned :
          mem[q].repoURL = "" =>
            /\ q \in Succeeded <=> mem[q].passes = 1
            /\ q \in Succeeded => PassClean(mem[q].status)
            /\ (q \in Failed /\ mem[q].maxAttempts >= 1) =>
                 mem[q].evals = mem[q].maxAttempts)

\* success without coordination of an agent that holds a claim in an
\* initialized namespace
C31_Witness ==
  \E q \in Succeeded :
    /\ mem[q].repoURL = ""
    /\ Initialized(fs)
    /\ \E p \in DOMAIN Table : Table[p].agent = q

\* C32: a run started with maxAttempts 0 whose evaluations never pass makes
\* exactly 10 attempts (10 executor calls, 10 evaluations) and then returns
\* the max-attempts failure, reporting 10 attempts.
C32_DefaultTen ==
  /\ \A q \in Runs : mem[q].passes = 0 => mem[q].runs <= 10
  /\ \A q \in Returned : mem[q].passes = 0 <=> q \in Failed
  /\ \A q \in Failed :
       /\ mem[q].runs = 10
       /\ mem[q].evals = 10
       /\ mem[q].result.Attempts = 10

\* the failure after the tenth attempt
C32_Witness ==
  \E q \in Failed : mem[q].runs = 10 /\ mem[q].status.TestStatus = "unknown"

\* The status the state table holds for agent q, "" without a record.
StatusOf(f, q) ==
  IF q \in DOMAIN loadState(f).agents THEN loadState(f).agents[q].status ELSE ""

\* The controller's states in the order the loop passes through them.
Order ==
  {<<"idle", "working">>, <<"idle", "blocked">>,
   <<"working", "checking">>, <<"checking", "executing">>,
   <<"executing", "evaluating">>, <<"evaluating", "working">>,
   <<"evaluating", "done">>, <<"evaluating", "blocked">>,
   <<"done", "returned">>, <<"blocked", "returned">>}

\* C33: every attempt passes Working, CheckingRebase, Executing, Evaluating
\* in this order; with coordination the Working step writes status working
\* before the check, the executor runs after the check and the probe after
\* the executor; done or blocked is written by the run's last step, after
\* every attempt was evaluated, and no other step writes the state table.
C33_AttemptOrder ==
  [][\A q \in Procs :
       (call'[q].op = "run" /\ pc'[q] # pc[q]) =>
         /\ <<pc[q], pc'[q]>> \in Order
         /\ pc[q] = "working" =>
              /\ mem[q].runs = mem[q].attempt - 1 /\ mem[q].evals = mem[q].runs
              /\ mem[q].repoURL # "" => StatusOf(fs', q) = "working"
         /\ pc[q] = "checking" =>
              /\ mem'[q].runs = mem[q].runs /\ fs' = fs
              /\ mem[q].repoURL # "" => StatusOf(fs, q) = "working"
         /\ pc[q] = "executing" =>
              /\ mem'[q].runs = mem[q].runs + 1 /\ mem'[q].evals = mem[q].evals
              /\ fs' = fs
         /\ pc[q] = "evaluating" =>
              /\ mem'[q].evals = mem[q].evals + 1 /\ mem'[q].evals = mem[q].runs
              /\ fs' = fs
         /\ pc[q] \in {"done", "blocked"} =>
              /\ pc'[q] = "returned"
              /\ mem[q].evals = mem[q].runs
              /\ mem[q].repoURL # "" => StatusOf(fs', q) = pc[q]]_vars

\* a run with coordination that passes at its second attempt and ends in
\* status done
C33_Witness ==
  \E q \in Succeeded :
    mem[q].repoURL # "" /\ mem[q].evals = 2 /\ StatusOf(fs, q) = "done"

\* C34: the prompt of attempt 1 has no recap; the recap in the prompt of
\* an attempt k >= 2 is the status that the evaluation of attempt k-1
\* observed; the task text with its notes follows.
C34_RecapIsLastObserved ==
  [][\A q \in Runs :
       (pc[q] = "executing" /\ pc'[q] # "executing") =>
         /\ mem'[q].prompt.notes = mem[q].notes
         /\ mem'[q].prompt.recap =
              IF mem[q].attempt = 1 THEN <<>> ELSE <<mem[q].status>>]_vars

\* --------------------------------------------------- UpdSpec properties

\* The processes whose update of agent x has returned without error.
Updated(x) ==
  {q \in Procs : pc[q] = "returned" /\ ret[q] = Nil
                   /\ call[q].op = "update" /\ call[q].agent = x}

\* C24: once two update calls for one agent have both returned, in whatever
\* way their steps interleaved, get returns for that agent the arguments of
\* the call whose write landed last.
C24_LastWriteWins ==
  \A x \in Agents :
    (Cardinality(Updated(x)) = 2 /\ last.op = "update" /\ last.arg[1] = x) =>
      /\ GetState(fs).err = Nil
      /\ x \in DOMAIN GetState(fs).val.agents
      /\ GetState(fs).val.agents[x].name = x
      /\ GetState(fs).val.agents[x].status = last.arg[2]
      /\ GetState(fs).val.agents[x].branch = last.arg[3]

\* C36: whenever ClaimFile or ReleaseFile has returned an error (conflict,
\* forbidden, or a file-system call that failed, the event publish
\* included), the claims table is what it was before the call.
C36_ErrorLeavesTable ==
  (last.op \in {"claim", "release"} /\ last.err # Nil) =>
    loadClaims(fs) = loadClaims(last.pre)

\* C39: the controller never returns MaxAttemptsExceeded without having
\* invoked the executor: whatever maxAttempts it was given, negative values
\* included, a failed run has executed at least one attempt and reports
\* Attempts >= 1.
C39_BlockedOnlyAfterTrying ==
  \A q \in Failed : mem[q].runs >= 1 /\ mem[q].result.Attempts >= 1

\* C35: once update calls of two processes for two different agents have
\* both returned without error, in whatever way their steps interleaved,
\* the table holds for each agent the record its update wrote.
C35_NoLostUpdate ==
  \A q1, q2 \in Procs :
    (/\ q1 # q2
     /\ calls[q1] = 1 /\ calls[q2] = 1
     /\ pc[q1] = "returned" /\ pc[q2] = "returned"
     /\ call[q1].op = "update" /\ call[q2].op = "update"
     /\ ret[q1] = Nil /\ ret[q2] = Nil
     /\ call[q1].agent # call[q2].agent) =>
      /\ GetState(fs).err = Nil
      /\ \A q \in {q1, q2} :
           /\ call[q].agent \in DOMAIN GetState(fs).val.agents
           /\ GetState(fs).val.agents[call[q].agent].status = out[q].status
           /\ GetState(fs).val.agents[call[q].agent].branch = out[q].branch

\* --------------------------------------------------- PubSpec properties
\* How often e occurs in a sequence of events.
Count(events, e) == Cardinality({i \in 1..Len(events) : events[i] = e})

\* C14: concurrent publishers never lose or corrupt each other's events:
\* whatever the interleaving, the log read back holds exactly the events of
\* the publish calls that returned success, each once and whole (every line
\* of the file parses), and nothing else.
C14_NoLostEvents ==
  /\ \A i \in 1..Len(fs.messages.content) : fs.messages.content[i].json
  /\ Len(Log) = Len(sent)
  /\ \A i \in 1..Len(sent) : Count(Log, sent[i]) = Count(sent, sent[i])

\* Both processes have published, and the log holds an event stamped later
\* before one stamped earlier: the second publisher read the clock first.
C14_Witness ==
  /\ \A self \in Procs : pc[self] = "idle" /\ calls[self] = MaxCalls
  /\ Len(Log) = 2 * MaxCalls
  /\ \E i \in 1..(Len(Log) - 1) :
       /\ Log[i].agent # Log[i + 1].agent
       /\ Log[i].timestamp > Log[i + 1].timestamp

\* C37: the timestamps of the events are non-decreasing in log order,
\* whatever the interleaving of the publish calls of concurrent processes.
C37_LogOrderIsTimeOrder ==
  \A i, j \in 1..Len(Log) : i < j => Log[i].timestamp <= Log[j].timestamp

\* ----------------------------------------------------- NsSpec properties
\* C11: list and isClaimed are pure reads: they leave the claims table, the
\* event log and the agent-state table as they were, list returns the table,
\* and isClaimed(p) returns (holder, true) exactly when the table has a claim
\* for p and ("", false) otherwise.
C11_PureReads ==
  /\ last.op \in {"list", "isClaimed"} => fs = last.pre /\ last.err = Nil
  /\ last.op = "list" => last.val = Table
  /\ last.op = "isClaimed" =>
       LET p == last.arg[1]
       IN IF p \in DOMAIN Table
            THEN last.val = [agent |-> Table[p].agent, claimed |-> TRUE]
            ELSE last.val = [agent |-> "", claimed |-> FALSE]

\* isClaimed answered about a claimed path while another path is unclaimed,
\* with events in the log and an agent in the state table.
C11_Witness ==
  /\ last.op = "isClaimed"
  /\ last.val.claimed
  /\ \E q \in ConcPaths : q \notin DOMAIN Table
  /\ Len(Log) > 1
  /\ DOMAIN loadState(fs).agents # {}

\* C20: initialize is idempotent: on a fresh namespace it creates an empty
\* claims table, an empty event log and an empty agent-state table; called
\* again later, after claims, publishes and state updates, it succeeds and
\* leaves all three as they were.
C20_InitIdempotent ==
  last.op = "init" =>
    /\ last.err = Nil
    /\ Initialized(fs)
    /\ IF Initialized(last.pre)
         THEN fs = last.pre
         ELSE /\ Table = EmptyClaims
              /\ Log = <<>>
              /\ fs.messages.content = <<>>
              /\ loadState(fs) = EmptyState

\* Init called again on a namespace that holds a claim, events and an agent.
C20_Witness ==
  /\ last.op = "init"
  /\ DOMAIN PreTable # {}
  /\ Len(PreLog) > 1
  /\ DOMAIN loadState(last.pre).agents # {}

\* ------------------------------------- RelevanceSpec, SinceSpec properties
Untargeted(e) == "target" \notin DOMAIN e.data
TargetedAt(e, x) == "target" \in DOMAIN e.data /\ e.data["target"] = x
Qualifies(e, x) == e.type = MsgRebaseNeeded /\ (Untargeted(e) \/ TargetedAt(e, x))
RelevantTo(e, x) == e.agent = x \/ e.type \in {MsgPushed, MsgMerged} \/ Qualifies(e, x)

\* C12: every event stored by publish carries the time the store read from
\* its clock when writing; the timestamp in the caller's message is ignored,
\* and type, agent and data are stored as given.
C12_StoreTimestamp ==
  last.op = "publish" =>
    /\ last.err = Nil
    /\ Log = Append(PreLog, Message(last.arg.type, last.arg.agent, last.at,
                                    last.arg.data))
    /\ fs.messages.content[Len(fs.messages.content)].obj.timestamp = last.at

\* A message with data and a timestamp of the caller's was published after
\* the clock had advanced.
C12_Witness ==
  /\ last.op = "publish"
  /\ last.arg.timestamp = CallerTime
  /\ last.at > 0
  /\ last.arg.data # NoData
  /\ Len(Log) > 1

\* C15: readAll returns the events in append order: for publish calls made
\* one after another, one event per call in the order of the calls, and the
\* empty sequence when nothing was published.
C15_ReadAllInOrder ==
  last.op = "readAll" =>
    /\ last.err = Nil
    /\ Len(last.val) = Len(sent)
    /\ \A i \in 1..Len(sent) :
         /\ last.val[i].type = sent[i].type
         /\ last.val[i].agent = sent[i].agent
         /\ last.val[i].data = sent[i].data

\* readAll after two calls that published different events.
C15_Witness ==
  /\ last.op = "readAll"
  /\ Len(last.val) = 2
  /\ last.val[1].type # last.val[2].type
  /\ last.val[1].agent # last.val[2].agent

\* C16: readSince(t) returns exactly the events of readAll whose timestamp is
\* strictly greater than t, in the same relative order; an event stamped
\* exactly t is left out.
C16_ReadSince ==
  last.op = "readSince" =>
    /\ last.err = Nil
    /\ last.val = SelectSeq(Log, LAMBDA e : e.timestamp > last.arg[1])
    /\ \A i \in 1..Len(last.val) : last.val[i].timestamp # last.arg[1]

\* readSince(t) answered with an event while the log holds one stamped t.
C16_Witness ==
  /\ last.op = "readSince"
  /\ last.val # <<>>
  /\ \E i \in 1..Len(Log) : Log[i].timestamp = last.arg[1]

C18_HasRebaseNeeded ==
  last.op = "hasRebaseNeeded" =>
    LET x == last.arg[1]
        since == last.arg[2]
    IN /\ last.err = Nil
       /\ last.val <=> \E i \in 1..Len(Log) :
                          Qualifies(Log[i], x) /\ Log[i].timestamp > since

\* hasRebaseNeeded answered true while the log also holds a rebase_needed
\* event that does not count: targeted at someone else, or not after since.
C18_Witness ==
  /\ last.op = "hasRebaseNeeded"
  /\ last.val
  /\ \E i \in 1..Len(Log) :
       /\ Log[i].type = MsgRebaseNeeded
       /\ ~Qualifies(Log[i], last.arg[1]) \/ Log[i].timestamp <= last.arg[2]

\* ---------------------------------------------------- TornSpec properties
\* The lines of messages.jsonl that parse, as messages, top to bottom.
WellFormed ==
  LET good == SelectSeq(fs.messages.content, LAMBDA l : l.json)
  IN [i \in 1..Len(good) |-> UnmarshalMessage(good[i].obj)]

Signalled(x, since) ==
  \E i \in 1..Len(Log) : Qualifies(Log[i], x) /\ Log[i].timestamp > since

\* C29: the prompt of an attempt holds the rebase instruction exactly when,
\* at the attempt's check, the log holds a rebase_needed event stamped after
\* loop-start that has no target or targets this agent; loop-start does not
\* move, and a task that holds the instruction holds it in every later
\* attempt.
C29_RebaseInPrompt ==
  [][\A q \in Runs :
       /\ mem'[q].loopStart = mem[q].loopStart
       /\ mem'[q].notes >= mem[q].notes
       /\ (pc[q] = "checking" /\ pc'[q] # "checking") =>
            /\ pc'[q] = "executing"
            /\ mem'[q].notes >= 1 <=> Signalled(q, mem[q].loopStart)
       /\ (pc[q] = "executing" /\ pc'[q] # "executing") =>
            mem'[q].prompt.notes = mem[q].notes]_vars

\* the second prompt holds the instruction for a signal raised after the
\* first attempt's check, next to a signal for another agent in the log
C29_Witness ==
  \E q \in Runs :
    /\ pc[q] = "evaluating"
    /\ mem[q].attempt = 2
    /\ mem[q].prompt.notes = 1
    /\ \E i \in 1..Len(Log) :
         Log[i].type = MsgRebaseNeeded /\ ~Qualifies(Log[i], q)

\* C38: in every attempt's prompt the rebase instruction appears at most
\* once, however many earlier attempts of the run detected the signal.
C38_OneRebaseNote ==
  \A q \in Runs : mem[q].prompt.notes <= 1

\* ----------------------------------------------------- FrameSpec properties
\* C40: a step of the controller run for agent q creates or changes no
\* claim, leaves the event log as it was, leaves every other agent's state
\* record as it was (present or absent), and removes no claim held by
\* another agent.
C40_Footprint ==
  [][\A q \in Procs :
       (pc'[q] # pc[q] /\ call'[q].op = "run") =>
         /\ \A p \in DOMAIN loadClaims(fs') :
              /\ p \in DOMAIN loadClaims(fs)
              /\ loadClaims(fs')[p] = loadClaims(fs)[p]
         /\ readMessagesFromDir(fs') = readMessagesFromDir(fs)
         /\ \A o \in Agents \ {q} :
              /\ o \in DOMAIN loadState(fs').agents <=>
                   o \in DOMAIN loadState(fs).agents
              /\ o \in DOMAIN loadState(fs).agents =>
                   loadState(fs').agents[o] = loadState(fs).agents[o]
         /\ \A p \in DOMAIN loadClaims(fs) :
              loadClaims(fs)[p].agent # q => p \in DOMAIN loadClaims(fs')]_vars

\* a run with coordination has ended in done and released its agent's
\* claim, next to the other agent's claim, state record and the two claim
\* events, all still in place
C40_Witness ==
  \E q \in Succeeded : \E o \in Agents \ {q} :
    /\ mem[q].repoURL # ""
    /\ \E p \in DOMAIN mem[q].claims :
         mem[q].claims[p].agent = q /\ p \notin DOMAIN Table
    /\ \E p \in DOMAIN Table : Table[p].agent = o
    /\ o \in DOMAIN PostAgents /\ PostAgents[o].branch = "b1"
    /\ q \in DOMAIN PostAgents /\ PostAgents[q].status = "done"
    /\ Len(Log) = 2

====
